---- MODULE Spec2Model ----
(***************************************************************************)
(* A model of geomstats/solvers.py: the fixed-step integrator              *)
(* (GSIntegrator), the adaptive integrator adapter (SCPSolveIVP) and the   *)
(* exponential-map ODE solver (ExpODESolver).                              *)
(*                                                                         *)
(* Numbers are binary floating-point values: a number is a reduced         *)
(* fraction <<n, d>> and every arithmetic operation rounds its exact       *)
(* result to Precision significant bits (round to nearest, ties to even),  *)
(* as Python's floats do with 53 bits.  Arrays are numpy-like records      *)
(* [shape, data] with the data in row-major order.                         *)
(***************************************************************************)
EXTENDS Integers, Sequences, FiniteSets, TLC

(* ------------------------------ bounds ------------------------------- *)

\* significant bits of a floating-point number (53 for a Python float)
Precision == 4

\* largest n_steps a fixed-step integrator is constructed with
MaxSteps == 3

\* most steps the adaptive solver takes in one run
MaxSolverSteps == 2

(* ------------------------- rational arithmetic ----------------------- *)

Abs(x) == IF x < 0 THEN -x ELSE x

RECURSIVE Gcd(_, _)
Gcd(a, b) == IF b = 0 THEN a ELSE Gcd(b, a % b)

\* the reduced fraction n/d, d # 0
Rat(n, d) ==
    LET g == Gcd(Abs(n), Abs(d))
        s == IF d < 0 THEN -1 ELSE 1
    IN  <<(s * n) \div g, (s * d) \div g>>

Zero == <<0, 1>>
One == <<1, 1>>
OfInt(i) == <<i, 1>>

RECURSIVE Pow2(_)
Pow2(k) == IF k = 0 THEN 1 ELSE 2 * Pow2(k - 1)

\* n/d rounded to the nearest integer, ties to the even one (n >= 0, d > 0)
RoundHalfEven(n, d) ==
    LET q == n \div d
        r == n % d
    IN  IF 2 * r < d THEN q
        ELSE IF 2 * r > d THEN q + 1
        ELSE IF q % 2 = 0 THEN q ELSE q + 1

\* n/d (n > 0, d > 0) rounded to Precision significant bits: the fraction is
\* scaled by powers of two into [2^(Precision-1), 2^Precision), rounded to an
\* integer there and scaled back
MantissaEnd == Pow2(Precision)
MantissaStart == Pow2(Precision - 1)

RECURSIVE RoundPos(_, _, _, _)
RoundPos(n, d, up, down) ==
    IF n >= MantissaEnd * d THEN RoundPos(n, 2 * d, 2 * up, down)
    ELSE IF n < MantissaStart * d THEN RoundPos(2 * n, d, up, 2 * down)
    ELSE Rat(RoundHalfEven(n, d) * up, down)

\* the floating-point number nearest to the fraction q
FNeg(a) == <<-a[1], a[2]>>

Fl(q) ==
    IF q[1] = 0 THEN Zero
    ELSE IF q[1] < 0 THEN FNeg(RoundPos(-q[1], q[2], 1, 1))
    ELSE RoundPos(q[1], q[2], 1, 1)


\* floating-point addition, multiplication and division (b # 0)
FAdd(a, b) == Fl(Rat(a[1] * b[2] + b[1] * a[2], a[2] * b[2]))
FMul(a, b) == Fl(Rat(a[1] * b[1], a[2] * b[2]))
FDiv(a, b) == Fl(Rat(a[1] * b[2], a[2] * b[1]))

(* ------------------------------- arrays ------------------------------ *)

\* An array is [shape |-> <<d1, ..., dk>>, data |-> the d1*...*dk numbers in
\* row-major order]; a Python scalar has shape << >>.  A value that is an
\* exception instead is [err |-> its type].
Raise(type) == [err |-> type]
IsErr(x) == "err" \in DOMAIN x

\* x when it is an exception, and F(x) otherwise: an exception raised in the
\* middle of a computation ends it
Then(x, F(_)) == IF IsErr(x) THEN x ELSE F(x)

RECURSIVE Prod(_)
Prod(shape) == IF shape = << >> THEN 1 ELSE Head(shape) * Prod(Tail(shape))

Scalar(x) == [shape |-> << >>, data |-> <<x>>]
Vec(xs) == [shape |-> <<Len(xs)>>, data |-> xs]
Mat(rows) ==
    [shape |-> <<Len(rows), Len(rows[1])>>,
     data |-> [j \in 1..(Len(rows) * Len(rows[1])) |->
                  rows[((j - 1) \div Len(rows[1])) + 1][((j - 1) % Len(rows[1])) + 1]]]

\* elementwise operations on arrays of one shape
AAdd(a, b) == [shape |-> a.shape, data |-> [j \in 1..Len(a.data) |-> FAdd(a.data[j], b.data[j])]]
AMul(a, b) == [shape |-> a.shape, data |-> [j \in 1..Len(a.data) |-> FMul(a.data[j], b.data[j])]]
ANeg(a) == [shape |-> a.shape, data |-> [j \in 1..Len(a.data) |-> FNeg(a.data[j])]]
\* a Python scalar c times an array
AScale(c, a) == [shape |-> a.shape, data |-> [j \in 1..Len(a.data) |-> FMul(c, a.data[j])]]
ZerosLike(a) == [shape |-> a.shape, data |-> [j \in 1..Len(a.data) |-> Zero]]
FullLike(a, c) == [shape |-> a.shape, data |-> [j \in 1..Len(a.data) |-> c]]

\* a[i] along the first axis, i counted from 0
Index0(a, i) ==
    LET m == Prod(Tail(a.shape))
    IN  [shape |-> Tail(a.shape), data |-> SubSeq(a.data, i * m + 1, (i + 1) * m)]

\* a[-1]
IndexLast(a) == Index0(a, Head(a.shape) - 1)

Min(x, y) == IF x < y THEN x ELSE y

\* a[:n] and a[n:] along the first axis (n >= 0); a scalar has no axis to
\* slice
SliceTo(a, n) ==
    IF a.shape = << >> THEN Raise("IndexError") ELSE
    LET m == Prod(Tail(a.shape))
        k == Min(n, Head(a.shape))
    IN  [shape |-> <<k>> \o Tail(a.shape), data |-> SubSeq(a.data, 1, k * m)]

SliceFrom(a, n) ==
    IF a.shape = << >> THEN Raise("IndexError") ELSE
    LET m == Prod(Tail(a.shape))
        k == Min(n, Head(a.shape))
    IN  [shape |-> <<Head(a.shape) - k>> \o Tail(a.shape),
         data |-> SubSeq(a.data, k * m + 1, Len(a.data))]

\* gs.flatten
Flatten(a) == [shape |-> <<Len(a.data)>>, data |-> a.data]

\* gs.stack([a, b]): the arrays must have one shape
Stack(a, b) ==
    IF a.shape # b.shape THEN Raise("ValueError")
    ELSE [shape |-> <<2>> \o a.shape, data |-> a.data \o b.data]

RECURSIVE Concat(_)
Concat(seqs) == IF seqs = << >> THEN << >> ELSE Head(seqs) \o Concat(Tail(seqs))

\* gs.array(list of arrays of one shape)
ArrayOf(list) ==
    [shape |-> <<Len(list)>> \o list[1].shape,
     data |-> Concat([i \in 1..Len(list) |-> list[i].data])]

\* the transpose of a two-dimensional array
Transpose(a) ==
    LET r == a.shape[1]
        c == a.shape[2]
    IN  [shape |-> <<c, r>>,
         data |-> [j \in 1..(r * c) |-> a.data[((j - 1) % r) * c + ((j - 1) \div r) + 1]]]

\* gs.moveaxis(a, 0, -1) of a two-dimensional array: axis 0 becomes the last
MoveAxis0ToLast(a) == Transpose(a)

\* gs.broadcast_to(a, shape): the shape of a, aligned to the right of the
\* target, must agree with it or be 1 in every axis
CanBroadcast(from, to) ==
    /\ Len(from) <= Len(to)
    /\ \A i \in 1..Len(from) :
          from[i] = 1 \/ from[i] = to[Len(to) - Len(from) + i]

\* the row-major index (from 0) in an array of shape `from` of the element that
\* index j (from 0) of its broadcast to shape `to` shows
RECURSIVE SourceIndex(_, _, _, _)
SourceIndex(from, to, j, axis) ==
    IF axis > Len(to) THEN 0
    ELSE LET rest == Prod(SubSeq(to, axis + 1, Len(to)))
             here == (j \div rest) % to[axis]
             k == axis - (Len(to) - Len(from))
             restFrom == IF k >= 1 THEN Prod(SubSeq(from, k + 1, Len(from))) ELSE 0
             hereFrom == IF k >= 1 /\ from[k] # 1 THEN here ELSE 0
         IN  hereFrom * restFrom + SourceIndex(from, to, j, axis + 1)

BroadcastTo(a, shape) ==
    IF ~CanBroadcast(a.shape, shape) THEN Raise("ValueError")
    ELSE [shape |-> shape,
          data |-> [j \in 1..Prod(shape) |->
                       a.data[SourceIndex(a.shape, shape, j - 1, 1) + 1]]]


(* --------------------- metrics and vector fields --------------------- *)

\* the acceleration of a geodesic, quadratic in the velocity: none in
\* Euclidean space, -position * velocity^2 for the curved metric
Acceleration(metric, position, velocity) ==
    IF metric.name = "euclidean" THEN ZerosLike(velocity)
    ELSE ANeg(AMul(position, AMul(velocity, velocity)))

\* metric.geodesic_equation(state, time) of the metrics a solver is used with:
\* the state is the stack [position, velocity], the equation is
\* [velocity, acceleration]
GeodesicEquation(metric, state, time) ==
    IF state.shape = << >> THEN Raise("IndexError")
    ELSE IF Head(state.shape) # 2 THEN Raise("ValueError")
    ELSE Stack(Index0(state, 1), Acceleration(metric, Index0(state, 0), Index0(state, 1)))

\* ExpODESolver._force_unraveled_state
ForceUnraveledState(initial_state, t, metric) ==
    GeodesicEquation(metric, initial_state, t)

\* ExpODESolver._force_raveled_state
ForceRaveledState(raveled_initial_state, t, metric) ==
    Then(SliceTo(raveled_initial_state, metric.dim),
         LAMBDA position :
    Then(SliceFrom(raveled_initial_state, metric.dim),
         LAMBDA velocity :
    Then(Stack(position, velocity),
         LAMBDA state :
    Then(GeodesicEquation(metric, state, t),
         LAMBDA eq : Flatten(eq)))))

\* a _get_force that leaves the argument order as it is for a time-first
\* integrator
GetForceStateFirst(raveled, timeFirst, metric) ==
    [kind |-> "geodesic", metric |-> metric, raveled |-> raveled, tfirst |-> FALSE]

\* ExpODESolver._get_force: the vector field handed to the integrator, a
\* closure over the metric and the two layout flags read when it is built
GetForce(raveled, timeFirst, metric) ==
    [kind |-> "geodesic", metric |-> metric, raveled |-> raveled, tfirst |-> timeFirst]

\* A call force(a1, a2) of a vector field.  A field of an integrate call is
\* the zero field, a constant field k, the field f(state, t) = state, or a
\* field that raises; it takes (state, time), or (time, state) when its
\* tfirst is set.
ForceCall(force, a1, a2) ==
    LET state == IF force.tfirst THEN a2 ELSE a1
        time == IF force.tfirst THEN a1 ELSE a2
    IN  CASE force.kind = "zero" -> ZerosLike(state)
          [] force.kind = "constant" -> FullLike(state, force.k)
          [] force.kind = "identity" -> state
          [] force.kind = "raising" -> Raise("FloatingPointError")
          [] force.kind = "geodesic" ->
                IF force.raveled THEN ForceRaveledState(state, time, force.metric)
                ELSE ForceUnraveledState(state, time, force.metric)

(* -------------------------- stepper registry ------------------------- *)

\* geomstats.integrator.STEP_FUNCTIONS: stepper name -> step function
StepNames == {"euler", "rk2", "rk4"}
STEP_FUNCTIONS == [name \in StepNames |-> name \o "_step"]

\* geomstats.integrator.FEVALS_PER_STEP: stepper name -> evaluations per step
FEVALS_PER_STEP == [name \in StepNames |->
    CASE name = "euler" -> 1 [] name = "rk2" -> 2 [] name = "rk4" -> 4]

\* step functions a caller supplies instead of a name
CustomSteps == {"hold_step", "half_step"}

\* Python's None as a step_type
None == "None"

Half == <<1, 2>>
Two == <<2, 1>>
Six == <<6, 1>>

\* geomstats.integrator.euler_step: state + dt * force(state, time)
EulerStep(force, state, time, dt) ==
    Then(ForceCall(force, state, Scalar(time)),
         LAMBDA k1 : AAdd(state, AScale(dt, k1)))

\* geomstats.integrator.rk2_step
Rk2Step(force, state, time, dt) ==
    Then(ForceCall(force, state, Scalar(time)),
         LAMBDA k1 :
    Then(ForceCall(force, AAdd(state, AScale(FDiv(dt, Two), k1)),
                   Scalar(FAdd(time, FDiv(dt, Two)))),
         LAMBDA k2 : AAdd(state, AScale(dt, k2))))

\* geomstats.integrator.rk4_step
Rk4Step(force, state, time, dt) ==
    Then(ForceCall(force, state, Scalar(time)),
         LAMBDA k1 :
    Then(ForceCall(force, AAdd(state, AScale(FDiv(dt, Two), k1)),
                   Scalar(FAdd(time, FDiv(dt, Two)))),
         LAMBDA k2 :
    Then(ForceCall(force, AAdd(state, AScale(FDiv(dt, Two), k2)),
                   Scalar(FAdd(time, FDiv(dt, Two)))),
         LAMBDA k3 :
    Then(ForceCall(force, AAdd(state, AScale(dt, k3)), Scalar(FAdd(time, dt))),
         LAMBDA k4 :
             AAdd(state,
                  AScale(FDiv(dt, Six),
                         AAdd(AAdd(AAdd(k1, AScale(Two, k2)), AScale(Two, k3)), k4)))))))

\* a caller's step function: hold_step returns the state as it is, half_step
\* is an Euler step of half the length
CustomStep(fn, force, state, time, dt) ==
    IF fn = "hold_step" THEN state
    ELSE Then(ForceCall(force, state, Scalar(time)),
              LAMBDA k1 : AAdd(state, AScale(FDiv(dt, Two), k1)))

\* the call step_function(force, state, time, dt)
StepFunctionCall(fn, force, state, time, dt) ==
    CASE fn = "euler_step" -> EulerStep(force, state, time, dt)
      [] fn = "rk2_step" -> Rk2Step(force, state, time, dt)
      [] fn = "rk4_step" -> Rk4Step(force, state, time, dt)
      [] OTHER -> CustomStep(fn, force, state, time, dt)

(* ------------------------------- state -------------------------------- *)

VARIABLES
    kind,              \* "none" before construction, "gs" (GSIntegrator), "scp" (SCPSolveIVP)
    state_is_raveled,  \* ODEIVPSolver.state_is_raveled
    tfirst,            \* ODEIVPSolver.tfirst
    save_result,       \* ODEIVPSolver.save_result
    result_,           \* ODEIVPSolver.result_
    step_type,         \* GSIntegrator._step_type
    step_function,     \* GSIntegrator._step_function
    n_steps,           \* GSIntegrator.n_steps
    method,            \* SCPSolveIVP.method
    last               \* the last call made on the objects, with its arguments and outcome

vars == <<kind, state_is_raveled, tfirst, save_result, result_, step_type,
          step_function, n_steps, method, last>>

\* result_ = None
NoResult == [none |-> TRUE]

\* how a call ends: it returns a value or raises an exception
Return(v) == [outcome |-> "return", value |-> v]
Raised(type) == [outcome |-> "raise", error |-> type]
Outcome(x) == IF IsErr(x) THEN Raised(x.err) ELSE Return(x)

(* --------------------------- GSIntegrator ----------------------------- *)

\* geomstats.errors.check_parameter_accepted_values(value, name, accepted)
CheckParameterAcceptedValues(value, accepted) ==
    IF value \in accepted THEN [checked |-> value] ELSE Raise("ValueError")

\* the step_type setter with no check of the name: what a setter that stored
\* any name would store
StepTypeSetterUnchecked(value) ==
    IF value \in CustomSteps
    THEN [step_function |-> value, step_type |-> None]
    ELSE [step_function |-> value \o "_step", step_type |-> value]

\* the step_type setter: what the assignment step_type = value stores in
\* _step_function and _step_type, or the exception it raises before it
\* stores anything
StepTypeSetter(value) ==
    IF value \in CustomSteps
    THEN [step_function |-> value, step_type |-> None]
    ELSE Then(CheckParameterAcceptedValues(value, DOMAIN STEP_FUNCTIONS),
              LAMBDA checked :
                  IF value \notin DOMAIN STEP_FUNCTIONS THEN Raise("KeyError")
                  ELSE [step_function |-> STEP_FUNCTIONS[value], step_type |-> value])

\* an evaluation count that leaves the number of steps out
GetNFevalsOfOneStep(stepType, nSteps) ==
    IF stepType \notin DOMAIN FEVALS_PER_STEP THEN Raise("KeyError")
    ELSE [n |-> FEVALS_PER_STEP[stepType]]

\* GSIntegrator._get_n_fevals
GetNFevals(stepType, nSteps) ==
    IF stepType \notin DOMAIN FEVALS_PER_STEP THEN Raise("KeyError")
    ELSE [n |-> FEVALS_PER_STEP[stepType] * nSteps]

\* the points of gs.linspace(start, stop, num) but the last: i * step + start
LinspacePoint(i, step, start) == FAdd(FMul(OfInt(i), step), start)

\* gs.linspace(start, stop, num): num points, the last one set to stop
Linspace(start, stop, num) ==
    IF num < 0 THEN Raise("ValueError")
    ELSE IF num = 0 THEN Vec(<< >>)
    ELSE IF num = 1 THEN Vec(<<start>>)
    ELSE Vec([i \in 1..num |->
                IF i = num THEN stop
                ELSE LinspacePoint(i - 1, FDiv(FAdd(stop, FNeg(start)), OfInt(num - 1)),
                                   start)])

\* a step taken from the origin instead of from the current state
StepFromOrigin(stepFn, force, state, time, dt) ==
    StepFunctionCall(stepFn, force, ZerosLike(state), time, dt)

\* GSIntegrator.step
Step(stepFn, force, state, time, dt) == StepFunctionCall(stepFn, force, state, time, dt)

\* the loop of GSIntegrator.integrate: steps i, ..., n-1 appended to states
RECURSIVE StepLoop(_, _, _, _, _, _)
StepLoop(stepFn, force, states, i, n, dt) ==
    IF i >= n THEN [states |-> states]
    ELSE Then(Step(stepFn, force, states[Len(states)], FMul(OfInt(i), dt), dt),
              LAMBDA current_state :
                  StepLoop(stepFn, force, Append(states, current_state), i + 1, n, dt))

\* an integrate that asks linspace for n_steps time points instead of
\* n_steps + 1
GSIntegrateFewerTimePoints(nSteps, stepType, stepFn, force, initial_state, end_time) ==
    IF nSteps = 0 THEN Raised("ZeroDivisionError")
    ELSE Outcome(
        Then(StepLoop(stepFn, force, <<initial_state>>, 0, nSteps,
                      FDiv(end_time, OfInt(nSteps))),
             LAMBDA loop :
        Then(Linspace(Zero, end_time, nSteps),
             LAMBDA ts :
        Then(GetNFevals(stepType, nSteps),
             LAMBDA nfev :
                 [t |-> ts, y |-> ArrayOf(loop.states), nfev |-> nfev.n,
                  njev |-> 0, sucess |-> TRUE]))))

\* an integrate that reports its evaluation count as the Jacobian count too
GSIntegrateCountingJacobians(nSteps, stepType, stepFn, force, initial_state, end_time) ==
    IF nSteps = 0 THEN Raised("ZeroDivisionError")
    ELSE Outcome(
        Then(StepLoop(stepFn, force, <<initial_state>>, 0, nSteps,
                      FDiv(end_time, OfInt(nSteps))),
             LAMBDA loop :
        Then(Linspace(Zero, end_time, nSteps + 1),
             LAMBDA ts :
        Then(GetNFevals(stepType, nSteps),
             LAMBDA nfev :
                 [t |-> ts, y |-> ArrayOf(loop.states), nfev |-> nfev.n,
                  njev |-> nfev.n, sucess |-> TRUE]))))

\* an integrate whose time step is end_time instead of end_time / n_steps
GSIntegrateUndividedStep(nSteps, stepType, stepFn, force, initial_state, end_time) ==
    IF nSteps = 0 THEN Raised("ZeroDivisionError")
    ELSE Outcome(
        Then(StepLoop(stepFn, force, <<initial_state>>, 0, nSteps, end_time),
             LAMBDA loop :
        Then(Linspace(Zero, end_time, nSteps + 1),
             LAMBDA ts :
        Then(GetNFevals(stepType, nSteps),
             LAMBDA nfev :
                 [t |-> ts, y |-> ArrayOf(loop.states), nfev |-> nfev.n,
                  njev |-> 0, sucess |-> TRUE]))))

\* GSIntegrator.integrate, up to the caching of the result: what the call
\* returns or raises
GSIntegrate(nSteps, stepType, stepFn, force, initial_state, end_time) ==
    IF nSteps = 0 THEN Raised("ZeroDivisionError")
    ELSE Outcome(
        Then(StepLoop(stepFn, force, <<initial_state>>, 0, nSteps,
                      FDiv(end_time, OfInt(nSteps))),
             LAMBDA loop :
        Then(Linspace(Zero, end_time, nSteps + 1),
             LAMBDA ts :
        Then(GetNFevals(stepType, nSteps),
             LAMBDA nfev :
                 [t |-> ts, y |-> ArrayOf(loop.states), nfev |-> nfev.n,
                  njev |-> 0, sucess |-> TRUE]))))

(* ---------------------------- SCPSolveIVP ----------------------------- *)

\* methods of the adaptive solver that use a Jacobian
ImplicitMethods == {"Radau"}
Methods == {"RK45"} \cup ImplicitMethods

\* one accepted step of the adaptive solver, an explicit two-stage
\* Runge-Kutta step of length h; fun is called time first
SolverStep(fun, t, y, h) ==
    Then(ForceCall(fun, Scalar(t), y),
         LAMBDA k1 :
    Then(ForceCall(fun, Scalar(FAdd(t, h)), AAdd(y, AScale(h, k1))),
         LAMBDA k2 : AAdd(y, AScale(FDiv(h, Two), AAdd(k1, k2)))))

\* the accepted steps i, ..., n-1 of a run that takes `steps` steps of length
\* h to reach end_time
RECURSIVE SolverLoop(_, _, _, _, _, _, _, _)
SolverLoop(fun, ts, ys, i, n, h, steps, end_time) ==
    IF i >= n THEN [ts |-> ts, ys |-> ys]
    ELSE Then(SolverStep(fun, ts[Len(ts)], ys[Len(ys)], h),
              LAMBDA y :
                  SolverLoop(fun,
                             Append(ts, IF i + 1 = steps THEN end_time
                                        ELSE FMul(OfInt(i + 1), h)),
                             Append(ys, y), i + 1, n, h, steps, end_time))

\* scipy.integrate.solve_ivp(fun, (0.0, end_time), y0, method, **options):
\* the solver chooses its steps, here `steps` of them of one length; when it
\* does not converge it stops one step short and reports the failure in
\* status and success.  y has one row per state component and one column per
\* time point.
SolveIVP(fun, end_time, y0, solverMethod, steps, converges) ==
    Then(ForceCall(fun, Scalar(Zero), y0),
         LAMBDA first :
    Then(SolverLoop(fun, <<Zero>>, <<y0>>, 0, IF converges THEN steps ELSE steps - 1,
                    FDiv(end_time, OfInt(steps)), steps, end_time),
         LAMBDA run :
             [t |-> Vec(run.ts),
              y |-> Transpose(ArrayOf(run.ys)),
              nfev |-> 2 * (Len(run.ts) - 1) + 1,
              njev |-> IF solverMethod \in ImplicitMethods THEN 1 ELSE 0,
              status |-> IF converges THEN 0 ELSE -1,
              success |-> converges]))

\* SCPSolveIVP._ode_result_to_backend_type: the arrays of the result become
\* arrays of the backend, with the same shape and entries
OdeResultToBackendType(ode_result) == ode_result

\* an integrate that returns the solver's y as it is, one row per component
SCPIntegrateAxisNotMoved(solverMethod, force, initial_state, end_time, steps, converges) ==
    Outcome(
        Then(SolveIVP(force, end_time, Flatten(initial_state), solverMethod,
                      steps, converges),
             LAMBDA solved : OdeResultToBackendType(solved)))

\* SCPSolveIVP.integrate, up to the caching of the result
SCPIntegrate(solverMethod, force, initial_state, end_time, steps, converges) ==
    Outcome(
        Then(SolveIVP(force, end_time, Flatten(initial_state), solverMethod,
                      steps, converges),
             LAMBDA solved :
                 [OdeResultToBackendType(solved) EXCEPT !.y = MoveAxis0ToLast(solved.y)]))

(* ---------------------------- ExpODESolver ---------------------------- *)

\* a _simplify_result that takes the velocity of the structured state
SimplifyResultVelocity(result, metric, raveled) ==
    IF raveled THEN SliceTo(IndexLast(result.y), metric.dim)
    ELSE Index0(IndexLast(result.y), 1)

\* ExpODESolver._simplify_result
SimplifyResult(result, metric, raveled) ==
    IF raveled THEN SliceTo(IndexLast(result.y), metric.dim)
    ELSE Index0(IndexLast(result.y), 0)

\* integrator.integrate(force, initial_state, end_time) of the integrator
\* `self`, a record of the integrator's fields
IntegrateOf(self, force, initial_state, end_time, steps, converges) ==
    IF self.kind = "gs"
    THEN GSIntegrate(self.n_steps, self.step_type, self.step_function,
                     force, initial_state, end_time)
    ELSE SCPIntegrate(self.method, force, initial_state, end_time, steps, converges)

\* the end of ExpODESolver.solve: the point taken from what integrate returned
Solved(self, metric, integrated) ==
    [done |-> IF integrated.outcome = "raise" THEN integrated
              ELSE Return(SimplifyResult(integrated.value, metric, self.state_is_raveled)),
     integrated |-> integrated]

\* ExpODESolver.solve(metric, tangent_vec, base_point): the point returned or
\* the exception raised (done), and what integrate returned or raised
Solve(self, metric, tangent_vec, base_point, steps, converges) ==
    IF ~CanBroadcast(base_point.shape, tangent_vec.shape)
    THEN [done |-> Raised("ValueError"), integrated |-> [outcome |-> "none"]]
    ELSE Solved(self, metric,
                IntegrateOf(self,
                            GetForce(self.state_is_raveled, self.tfirst, metric),
                            Stack(BroadcastTo(base_point, tangent_vec.shape), tangent_vec),
                            One, steps, converges))

(* ------------------------------ inputs -------------------------------- *)

\* what a caller passes as step_type
BadNames == {"midpoint"}
StepTypeValues == StepNames \cup BadNames \cup CustomSteps

NStepsValues == (-1)..MaxSteps

\* the steps the adaptive solver may take to reach end_time, and whether it
\* converges; a fixed-step integrator has no such choice
SolverChoices(k) ==
    IF k = "scp" THEN (1..MaxSolverSteps) \X BOOLEAN ELSE {<<1, TRUE>>}

\* vector fields, initial states and end times of a direct integrate call
UserForces(timeFirst) ==
    {[kind |-> "zero", tfirst |-> timeFirst],
     [kind |-> "constant", k |-> OfInt(1), tfirst |-> timeFirst],
     [kind |-> "constant", k |-> OfInt(7), tfirst |-> timeFirst],
     [kind |-> "identity", tfirst |-> timeFirst]}

InitialStates == {Scalar(Zero), Vec(<<OfInt(1), OfInt(2)>>)}

EndTimes == {One, OfInt(3)}

IntegrateInputs(timeFirst) ==
    {[force |-> f, initial_state |-> s, end_time |-> e] :
        f \in UserForces(timeFirst), s \in InitialStates, e \in EndTimes}

\* the integrate inputs of a behaviour that follows one integrator through
\* its assignments and calls
FewIntegrateInputs(timeFirst) ==
    {[force |-> [kind |-> k, tfirst |-> timeFirst],
      initial_state |-> Vec(<<OfInt(1), OfInt(2)>>), end_time |-> One] :
        k \in {"zero", "identity", "raising"}}

\* metrics, tangent vectors and base points of a solve call
Euclidean(dim) == [name |-> "euclidean", dim |-> dim]
Curved(dim) == [name |-> "curved", dim |-> dim]
Metrics == {Euclidean(2), Curved(1)}

Points(dim) ==
    IF dim = 1 THEN {Vec(<<OfInt(1)>>)}
    ELSE {Vec(<<Zero, OfInt(1)>>),
          Mat(<< <<OfInt(1), OfInt(2)>>, <<Zero, OfInt(1)>> >>)}

TangentVecs(dim) ==
    IF dim = 1
    THEN {Vec(<<Zero>>), Vec(<<OfInt(1)>>), Mat(<< <<OfInt(1)>>, <<Zero>> >>),
          Mat(<< <<Zero>>, <<Zero>> >>)}
    ELSE {Vec(<<Zero, Zero>>), Vec(<<OfInt(2), OfInt(1)>>),
          Mat(<< <<OfInt(2), OfInt(1)>>, <<Zero, OfInt(1)>> >>)}

SolveInputs ==
    UNION {{[metric |-> m, tangent_vec |-> v, base_point |-> p] :
              v \in TangentVecs(m.dim), p \in Points(m.dim)} : m \in Metrics}

FewSolveInputs ==
    {[metric |-> Euclidean(2), tangent_vec |-> v, base_point |-> Vec(<<Zero, OfInt(1)>>)] :
        v \in {Vec(<<Zero, Zero>>), Vec(<<OfInt(2), OfInt(1)>>)}}

(* ------------------------------ actions ------------------------------- *)

\* the integrator object as a record of its fields
Self ==
    [kind |-> kind, state_is_raveled |-> state_is_raveled, tfirst |-> tfirst,
     n_steps |-> n_steps, step_type |-> step_type, step_function |-> step_function,
     method |-> method]

Init ==
    /\ kind = "none"
    /\ state_is_raveled = FALSE
    /\ tfirst = FALSE
    /\ save_result = FALSE
    /\ result_ = NoResult
    /\ step_type = None
    /\ step_function = None
    /\ n_steps = 0
    /\ method = None
    /\ last = [op |-> "none"]

\* GSIntegrator(n_steps, step_type, save_result)
NewGSIntegrator ==
    \E n \in NStepsValues, value \in StepTypeValues, save \in BOOLEAN :
        /\ kind = "none"
        /\ last' = [op |-> "GSIntegrator", value |-> value,
                    done |-> Outcome(StepTypeSetter(value))]
        /\ IF last'.done.outcome = "raise"
           THEN UNCHANGED <<kind, state_is_raveled, tfirst, save_result, result_,
                            step_type, step_function, n_steps, method>>
           ELSE /\ kind' = "gs"
                /\ state_is_raveled' = FALSE
                /\ tfirst' = FALSE
                /\ save_result' = save
                /\ result_' = NoResult
                /\ step_function' = last'.done.value.step_function
                /\ step_type' = last'.done.value.step_type
                /\ n_steps' = n
                /\ UNCHANGED method

\* an SCPSolveIVP constructed with the layout flags of the base class default
NewSCPSolveIVPDefaultFlags ==
    \E m \in Methods, save \in BOOLEAN :
        /\ kind = "none"
        /\ kind' = "scp"
        /\ state_is_raveled' = FALSE
        /\ tfirst' = FALSE
        /\ save_result' = save
        /\ result_' = NoResult
        /\ method' = m
        /\ last' = [op |-> "SCPSolveIVP", done |-> Return(m)]
        /\ UNCHANGED <<step_type, step_function, n_steps>>

\* SCPSolveIVP(method, save_result, **options)
NewSCPSolveIVP ==
    \E m \in Methods, save \in BOOLEAN :
        /\ kind = "none"
        /\ kind' = "scp"
        /\ state_is_raveled' = TRUE
        /\ tfirst' = TRUE
        /\ save_result' = save
        /\ result_' = NoResult
        /\ method' = m
        /\ last' = [op |-> "SCPSolveIVP", done |-> Return(m)]
        /\ UNCHANGED <<step_type, step_function, n_steps>>

\* an assignment that stores the name before it checks it
SetStepTypeStoredBeforeCheck ==
    \E value \in StepTypeValues :
        /\ kind = "gs"
        /\ last' = [op |-> "step_type", value |-> value,
                    done |-> Outcome(StepTypeSetter(value))]
        /\ IF last'.done.outcome = "raise"
           THEN step_type' = value /\ UNCHANGED step_function
           ELSE /\ step_function' = last'.done.value.step_function
                /\ step_type' = last'.done.value.step_type
        /\ UNCHANGED <<kind, state_is_raveled, tfirst, save_result, result_,
                       n_steps, method>>

\* integrator.step_type = value
SetStepType ==
    \E value \in StepTypeValues :
        /\ kind = "gs"
        /\ last' = [op |-> "step_type", value |-> value,
                    done |-> Outcome(StepTypeSetter(value))]
        /\ IF last'.done.outcome = "raise"
           THEN UNCHANGED <<step_type, step_function>>
           ELSE /\ step_function' = last'.done.value.step_function
                /\ step_type' = last'.done.value.step_type
        /\ UNCHANGED <<kind, state_is_raveled, tfirst, save_result, result_,
                       n_steps, method>>

\* a caching that keeps the first result instead of the most recent one
CachedOnce(done) ==
    IF done.outcome = "return" /\ save_result /\ result_ = NoResult
    THEN done.value ELSE result_

\* a caching that clears the cache when the call raises
CachedOrCleared(done) ==
    IF ~save_result THEN result_
    ELSE IF done.outcome = "return" THEN done.value ELSE NoResult

\* the caching that ends both integrate methods
Cached(done) ==
    IF done.outcome = "return" /\ save_result THEN done.value ELSE result_

\* integrator.integrate(force, initial_state, end_time) with inputs of `inputs`
Integrate(inputs) ==
    \E in \in inputs, choice \in SolverChoices(kind) :
        /\ kind # "none"
        /\ last' = [op |-> "integrate", force |-> in.force,
                    initial_state |-> in.initial_state, end_time |-> in.end_time,
                    stepper |-> step_function,
                    done |-> IntegrateOf(Self, in.force, in.initial_state, in.end_time,
                                         choice[1], choice[2])]
        /\ result_' = Cached(last'.done)
        /\ UNCHANGED <<kind, state_is_raveled, tfirst, save_result,
                       step_type, step_function, n_steps, method>>

\* ExpODESolver(integrator).solve(metric, tangent_vec, base_point) with inputs
\* of `inputs`
SolveCall(inputs) ==
    \E in \in inputs, choice \in SolverChoices(kind) :
        /\ kind # "none"
        /\ last' = [op |-> "solve", metric |-> in.metric,
                    tangent_vec |-> in.tangent_vec, base_point |-> in.base_point,
                    stepper |-> step_function, choice |-> choice,
                    call |-> Solve(Self, in.metric, in.tangent_vec, in.base_point,
                                   choice[1], choice[2])]
        /\ result_' = IF last'.call.integrated.outcome = "none" THEN result_
                      ELSE Cached(last'.call.integrated)
        /\ UNCHANGED <<kind, state_is_raveled, tfirst, save_result,
                       step_type, step_function, n_steps, method>>

\* one integrator through its construction, assignments and calls
Next ==
    \/ NewGSIntegrator
    \/ NewSCPSolveIVP
    \/ SetStepType
    \/ Integrate(FewIntegrateInputs(tfirst))
    \/ SolveCall(FewSolveInputs)

Spec == Init /\ [][Next]_vars

\* integrate calls on a fixed-step integrator
NextIntegrate ==
    \/ NewGSIntegrator
    \/ kind = "gs" /\ Integrate(IntegrateInputs(tfirst))

SpecIntegrate == Init /\ [][NextIntegrate]_vars

\* solve calls on an integrator of either kind
NextSolve ==
    \/ NewGSIntegrator
    \/ NewSCPSolveIVP
    \/ SolveCall(SolveInputs)

SpecSolve == Init /\ [][NextSolve]_vars


(* ------------------------------ claims -------------------------------- *)

RegisteredFunctions == {STEP_FUNCTIONS[name] : name \in DOMAIN STEP_FUNCTIONS}

\* the last call was integrate or solve, and integrate returned this Result
IntegrateReturned(l) ==
    \/ l.op = "integrate" /\ l.done.outcome = "return"
    \/ l.op = "solve" /\ l.call.integrated.outcome = "return"

ReturnedResult(l) ==
    IF l.op = "integrate" THEN l.done.value ELSE l.call.integrated.value

\* C1: a step_type that is no registered name (and no callable) is refused
\* when it is given, at construction or in a later assignment: the
\* constructor or the assignment raises, no integrator comes to hold the
\* name, and every integrate call steps with a registered step function or a
\* caller's callable.
C1_UnregisteredStepperRejected ==
    /\ last.op \in {"GSIntegrator", "step_type"} /\ last.value \in BadNames
          => last.done.outcome = "raise"
    /\ kind = "gs" =>
          /\ step_type \in DOMAIN STEP_FUNCTIONS \cup {None}
          /\ step_function \in RegisteredFunctions \cup CustomSteps
    /\ last.op \in {"integrate", "solve"} /\ kind = "gs"
          => last.stepper \in RegisteredFunctions \cup CustomSteps

\* C1 witness: an assignment of an unregistered name was refused on an
\* integrator that has already integrated
C1_Witness ==
    /\ last.op = "step_type"
    /\ last.value \in BadNames
    /\ last.done.outcome = "raise"
    /\ result_ # NoResult

\* C2: with save_result set, every integrate call that returns (directly or
\* inside solve) leaves its Result, and nothing else, in result_, and no other
\* step changes result_; with save_result unset, result_ is None in every state.
C2_CacheIsLastResult ==
    /\ [](~save_result => result_ = NoResult)
    /\ [][IF save_result' /\ IntegrateReturned(last') /\ last' # last
          THEN result_' = ReturnedResult(last')
          ELSE result_' = IF kind = "none" THEN NoResult ELSE result_]_vars

\* C2 witness: the cache holds the Result of the integrate call just made
C2_Witness ==
    /\ save_result
    /\ last.op = "integrate"
    /\ last.done.outcome = "return"
    /\ last.force.kind = "zero"
    /\ result_ = last.done.value
    /\ last.stepper = "rk4_step"

\* C3: the layout flags are those of the integrator's backend in every state:
\* state_is_raveled and tfirst are both unset on a fixed-step integrator and
\* both set on an adaptive one, whatever calls were made.
C3_LayoutFlagsFixed ==
    /\ kind = "gs" => ~state_is_raveled /\ ~tfirst
    /\ kind = "scp" => state_is_raveled /\ tfirst

\* C3 witness: an adaptive integrator after a solve call
C3_Witness ==
    /\ kind = "scp"
    /\ last.op = "solve"
    /\ last.call.done.outcome = "return"
    /\ state_is_raveled
    /\ tfirst

\* the last call was integrate on a fixed-step integrator
GSIntegrateCalled == kind = "gs" /\ last.op = "integrate"

GSIntegrateReturned == GSIntegrateCalled /\ last.done.outcome = "return"

NamedStepper == step_type \in DOMAIN FEVALS_PER_STEP

\* C4: integrate on a fixed-step integrator with n_steps = N >= 1 and a named
\* stepper returns a Result, and every Result integrate returns with N >= 1
\* has N+1 time points, the first one 0, the last one end_time, the i-th one
\* i steps of end_time / N from 0 (in the arithmetic of the program), and
\* N+1 states, the first one the initial state.
C4_TimePointsAndStates ==
    GSIntegrateCalled /\ n_steps >= 1 =>
        /\ NamedStepper => last.done.outcome = "return"
        /\ last.done.outcome = "return" =>
            /\ last.done.value.t.shape = <<n_steps + 1>>
            /\ last.done.value.t.data[1] = Zero
            /\ last.done.value.t.data[n_steps + 1] = last.end_time
            /\ \A i \in 0..(n_steps - 1) :
                  last.done.value.t.data[i + 1] =
                      FMul(OfInt(i), FDiv(last.end_time, OfInt(n_steps)))
            /\ Head(last.done.value.y.shape) = n_steps + 1
            /\ Index0(last.done.value.y, 0) = last.initial_state

\* C4 witness: a Result of three steps to end_time 3
C4_Witness ==
    /\ GSIntegrateReturned
    /\ n_steps = 3
    /\ last.end_time = OfInt(3)
    /\ last.done.value.t.data = <<Zero, One, OfInt(2), OfInt(3)>>
    /\ last.force.kind = "identity"

\* C5: the nfev of every Result that integrate returns on a fixed-step
\* integrator with a named stepper is n_steps times the registered cost of
\* the stepper.
C5_EvaluationCount ==
    GSIntegrateReturned /\ NamedStepper =>
        last.done.value.nfev = n_steps * FEVALS_PER_STEP[step_type]

\* C5 witness: three rk4 steps counted as twelve evaluations
C5_Witness ==
    /\ GSIntegrateReturned
    /\ step_type = "rk4"
    /\ n_steps = 3
    /\ last.done.value.nfev = 12

\* C6 as the specification states it: integrate on a fixed-step integrator
\* with a caller's step function and n_steps >= 1 returns a Result whose
\* nfev is zero.
C6_CustomStepperReturnsZeroCount ==
    GSIntegrateCalled /\ step_function \in CustomSteps /\ n_steps >= 1 =>
        /\ last.done.outcome = "return"
        /\ last.done.value.nfev = 0

\* C7: integrate of the zero vector field on a fixed-step integrator with a
\* named stepper and n_steps >= 1 returns a Result whose n_steps + 1 states
\* all equal the initial state.
C7_ZeroFieldFixedPoint ==
    GSIntegrateCalled /\ NamedStepper /\ n_steps >= 1 /\ last.force.kind = "zero" =>
        /\ last.done.outcome = "return"
        /\ Head(last.done.value.y.shape) = n_steps + 1
        /\ \A i \in 0..n_steps : Index0(last.done.value.y, i) = last.initial_state

\* C7 witness: three rk2 steps of the zero field from a state that is not zero
C7_Witness ==
    /\ GSIntegrateReturned
    /\ step_type = "rk2"
    /\ n_steps = 3
    /\ last.force.kind = "zero"
    /\ last.initial_state = Vec(<<OfInt(1), OfInt(2)>>)
    /\ IndexLast(last.done.value.y) = last.initial_state

\* exact arithmetic on fractions, and the numbers the program can hold
QMul(a, b) == Rat(a[1] * b[1], a[2] * b[2])
QDiv(a, b) == Rat(a[1] * b[2], a[2] * b[1])
QDistance(a, b) == Rat(Abs(a[1] * b[2] - b[1] * a[2]), a[2] * b[2])
QLeq(a, b) == a[1] * b[2] <= b[1] * a[2]
QAbs(a) == <<Abs(a[1]), a[2]>>
Representable(q) == Fl(q) = q

\* n u / (1 - n u), u = 2^-Precision the unit roundoff: the relative error
\* that n < 2^Precision roundings can add up to
RoundingBound(n) == Rat(n, MantissaEnd - n)

\* the last call was integrate of a constant field k > 0 from the scalar 0
\* with the Euler stepper and n_steps >= 1
EulerOfConstant ==
    /\ GSIntegrateCalled
    /\ step_type = "euler"
    /\ n_steps >= 1
    /\ last.force.kind = "constant"
    /\ last.initial_state = Scalar(Zero)

\* the final state of the last Result, and k * T in exact arithmetic
FinalState == IndexLast(last.done.value.y).data[1]
ClosedForm == QMul(last.force.k, last.end_time)

\* T / N and every partial sum i * k * T / N, i = 1..N, are numbers the
\* program can hold
EulerSumsRepresentable ==
    /\ Representable(QDiv(last.end_time, OfInt(n_steps)))
    /\ \A i \in 1..n_steps :
          Representable(QDiv(QMul(OfInt(i), ClosedForm), OfInt(n_steps)))

\* C8 as the specification states it: the final state is k * T exactly, k * T
\* being the product as the program computes it.
C8_EulerConstantExact ==
    EulerOfConstant =>
        /\ last.done.outcome = "return"
        /\ FinalState = FMul(last.force.k, last.end_time)

\* C8: the Euler stepper on the constant field k from 0 returns a final state
\* that is k * T up to the rounding of the n_steps + 2 operations behind it,
\* and k * T exactly whenever T / N and the partial sums i * k * T / N are
\* numbers the program can hold.
C8_EulerConstantUpToRounding ==
    EulerOfConstant =>
        /\ last.done.outcome = "return"
        /\ QLeq(QDistance(FinalState, ClosedForm),
                QMul(RoundingBound(n_steps + 2), QAbs(ClosedForm)))
        /\ EulerSumsRepresentable => FinalState = ClosedForm

\* C8 witness: two Euler steps of the field 7 to end_time 1 end in 7
C8_Witness ==
    /\ EulerOfConstant
    /\ last.done.outcome = "return"
    /\ n_steps = 2
    /\ last.force.k = OfInt(7)
    /\ last.end_time = One
    /\ EulerSumsRepresentable
    /\ FinalState = OfInt(7)

\* the last call was solve, with shapes that broadcast, on an integrator that
\* takes at least one step
SolveCalled ==
    /\ last.op = "solve"
    /\ CanBroadcast(last.base_point.shape, last.tangent_vec.shape)
    /\ kind = "gs" => n_steps >= 1

IsZero(a) == \A j \in 1..Len(a.data) : a.data[j] = Zero

\* C9 as the specification states it: solve with a zero tangent_vec returns
\* base_point (one copy of it for every tangent vector), with either
\* integrator.
C9_ZeroTangentReturnsBasePoint ==
    SolveCalled /\ IsZero(last.tangent_vec) =>
        /\ last.call.done.outcome = "return"
        /\ last.call.done.value = BroadcastTo(last.base_point, last.tangent_vec.shape)

\* one base point and k tangent vectors
OneBasePointManyTangentVecs ==
    /\ Len(last.base_point.shape) = 1
    /\ Len(last.tangent_vec.shape) = 2

\* solve(metric, tangent_vec[i], base_point) on the integrator of the last call
IndividualSolve(i) ==
    Solve(Self, last.metric, Index0(last.tangent_vec, i), last.base_point,
          last.choice[1], last.choice[2]).done

\* C10 as the specification states it: solve with one base point and k
\* tangent vectors returns k points, the i-th one the point that solve returns
\* for the i-th tangent vector alone, with either integrator.
C10_BatchMatchesIndividualSolves ==
    SolveCalled /\ OneBasePointManyTangentVecs /\ (kind = "gs" => NamedStepper) =>
        /\ last.call.done.outcome = "return"
        /\ Head(last.call.done.value.shape) = Head(last.tangent_vec.shape)
        /\ \A i \in 0..(Head(last.tangent_vec.shape) - 1) :
              IndividualSolve(i) = Return(Index0(last.call.done.value, i))

QAdd(a, b) == Rat(a[1] * b[2] + b[1] * a[2], a[2] * b[2])

\* the last call was solve for the Euclidean metric on shapes that broadcast
EuclideanSolveCalled == SolveCalled /\ last.metric.name = "euclidean"

\* base_point as solve broadcasts it to the tangent vectors
BroadcastBasePoint == BroadcastTo(last.base_point, last.tangent_vec.shape)

\* entry j of the returned point is within the rounding of n operations of
\* entry j of base_point + tangent_vec
WithinRounding(n, j) ==
    QLeq(QDistance(last.call.done.value.data[j],
                   QAdd(BroadcastBasePoint.data[j], last.tangent_vec.data[j])),
         QMul(RoundingBound(n),
              QAdd(QAbs(BroadcastBasePoint.data[j]), QAbs(last.tangent_vec.data[j]))))

\* the time step and the positions base_point + i * dt * tangent_vec of the
\* Euler steps are numbers the program can hold
EulerPositionsRepresentable ==
    /\ Representable(QDiv(One, OfInt(n_steps)))
    /\ \A j \in 1..Len(last.tangent_vec.data) : \A i \in 1..n_steps :
          /\ Representable(QDiv(last.tangent_vec.data[j], OfInt(n_steps)))
          /\ Representable(QAdd(BroadcastBasePoint.data[j],
                                QDiv(QMul(OfInt(i), last.tangent_vec.data[j]),
                                     OfInt(n_steps))))

Roundings ==
    IF kind = "scp" THEN 3 * last.choice[1] + 2
    ELSE IF step_type = "rk4" THEN 5 * n_steps + 2
    ELSE n_steps + 2

\* solve returned a point, from an integration that reached end_time
SolveReachedEnd ==
    /\ last.call.done.outcome = "return"
    /\ kind = "scp" => last.call.integrated.value.success

C12_ResultHasSuccessFlag ==
    IntegrateReturned(last) =>
        /\ "success" \in DOMAIN ReturnedResult(last)
        /\ kind = "gs" => ReturnedResult(last).success

SolverFailed ==
    /\ last.op = "solve"
    /\ kind = "scp"
    /\ last.call.integrated.outcome = "return"
    /\ ~last.call.integrated.value.success

\* C14 as the specification states it: when the adaptive solver reports a
\* failure, the Result of integrate carries that failure unaltered and solve
\* returns no point.
C14_SolverFailureSurfaces ==
    SolverFailed =>
        /\ last.call.integrated.value.status = -1
        /\ last.call.done.outcome # "return"

\* C15 as the specification states it: no fixed-step integrator is
\* constructed with an n_steps that is not a positive integer, so integrate
\* is never entered with one: it neither fails on it nor returns a trajectory
\* of one state.
C15_NStepsValidatedAtConstruction ==
    /\ kind = "gs" => n_steps >= 1
    /\ GSIntegrateCalled /\ NamedStepper =>
          /\ last.done.outcome = "return"
          /\ Head(last.done.value.y.shape) >= 2

\* the initial state of the last solve call as the integrator holds it:
\* the stack of base_point and tangent_vec, flattened for the adaptive one
SolveInitialState ==
    IF kind = "scp" THEN Flatten(Stack(BroadcastBasePoint, last.tangent_vec))
    ELSE Stack(BroadcastBasePoint, last.tangent_vec)

\* the Result that integrate returned inside the last solve call
Trajectory == last.call.integrated.value

\* the position part of a state: its first dim entries in the raveled
\* layout, its first stacked component in the structured one
PositionOf(state) ==
    IF kind = "scp" THEN [shape |-> <<last.metric.dim>>,
                          data |-> SubSeq(state.data, 1, last.metric.dim)]
    ELSE [shape |-> Tail(state.shape),
          data |-> SubSeq(state.data, 1, Len(state.data) \div 2)]

\* C16: in every solve call whose integrate returns a Result, with either
\* integrator, y has one state per time point of t on its first axis, y[0] is
\* the initial state (position first, velocity second), the last time point is
\* 1.0 when the integration reached its end, and solve returns the position
\* part of the last state y[-1]: a point of the shape of a tangent vector,
\* no velocity and no slice across time.
C16_FinalPositionReturned ==
    SolveCalled /\ last.call.integrated.outcome = "return" =>
        /\ Head(Trajectory.y.shape) = Len(Trajectory.t.data)
        /\ Index0(Trajectory.y, 0) = SolveInitialState
        /\ PositionOf(Index0(Trajectory.y, 0)) = BroadcastBasePoint
        /\ (kind = "scp" => Trajectory.success) =>
              Trajectory.t.data[Len(Trajectory.t.data)] = One
        /\ last.call.done.outcome = "return"
        /\ last.call.done.value =
              PositionOf(Index0(Trajectory.y, Len(Trajectory.t.data) - 1))
        /\ last.call.done.value.shape = last.tangent_vec.shape

\* C16 witness: the adaptive integrator took two steps along (2, 1) from
\* (0, 1) and solve returned the first two entries of the last state
C16_Witness ==
    /\ SolveCalled
    /\ kind = "scp"
    /\ last.metric.name = "euclidean"
    /\ last.call.integrated.outcome = "return"
    /\ Trajectory.y.shape = <<3, 4>>
    /\ Trajectory.success
    /\ last.tangent_vec = Vec(<<OfInt(2), OfInt(1)>>)
    /\ last.call.done.value = Vec(<<OfInt(2), OfInt(2)>>)

\* the exceptions a geodesic_equation raises on arguments that are not a
\* stack [position, velocity] and a time, and the adapter on a state it
\* cannot restack
ArgumentErrors == {"IndexError", "ValueError", "TypeError"}

\* the last solve call took one step with a named stepper, or one solver step
\* that reached end_time
OneStepTaken ==
    IF kind = "gs" THEN n_steps = 1 /\ NamedStepper
    ELSE last.choice[1] = 1 /\ last.choice[2]

\* C17: in every solve call on one tangent vector (a state of 2 * dim
\* numbers), with either integrator, no call of the vector field fails on
\* its arguments: geodesic_equation gets the stack [position, velocity] first
\* and the time second.  Every state of the trajectory has the layout of the
\* initial state (2 * dim numbers in a row for the raveled integrator), and
\* one step for the Euclidean metric, whose equation is [velocity, 0], moves
\* the position by the velocity.
C17_GeodesicEquationArguments ==
    SolveCalled /\ Len(last.tangent_vec.shape) = 1 =>
        /\ last.call.done.outcome = "raise" =>
              last.call.done.error \notin ArgumentErrors
        /\ last.call.integrated.outcome = "return" =>
              \A i \in 0..(Head(Trajectory.y.shape) - 1) :
                  Index0(Trajectory.y, i).shape = SolveInitialState.shape
        /\ last.metric.name = "euclidean" /\ OneStepTaken =>
              /\ last.call.done.outcome = "return"
              /\ last.call.done.value = AAdd(last.base_point, last.tangent_vec)

\* C17 witness: two steps of the adaptive integrator for the curved metric,
\* on raveled states of two numbers
C17_Witness ==
    /\ SolveCalled
    /\ kind = "scp"
    /\ last.metric.name = "curved"
    /\ last.tangent_vec = Vec(<<OfInt(1)>>)
    /\ last.call.integrated.outcome = "return"
    /\ Trajectory.y.shape = <<3, 2>>
    /\ last.call.done.value # last.base_point

\* the stored step_type and step function belong to one accepted
\* assignment: a registered name with its registry function, or None with a
\* caller's callable
StepperOfOneAssignment ==
    \/ step_type \in DOMAIN STEP_FUNCTIONS /\ step_function = STEP_FUNCTIONS[step_type]
    \/ step_type = None /\ step_function \in CustomSteps

\* what an assignment of this value stores when it is accepted
AcceptedStepper(value) ==
    IF value \in CustomSteps THEN [step_function |-> value, step_type |-> None]
    ELSE [step_function |-> STEP_FUNCTIONS[value], step_type |-> value]

\* the last step was a step_type assignment
Assigned == last'.op = "step_type" /\ last' # last

\* C18: a rejected step_type assignment leaves step_type and the step
\* function as they were, an accepted one stores its own pair, so in every
\* state of a fixed-step integrator the two belong to the last accepted
\* assignment; and an integrate call with a named stepper returns what the
\* registry function of the stored name computes.
C18_RejectedAssignmentKeepsStepper ==
    /\ [](kind = "gs" => StepperOfOneAssignment)
    /\ [](GSIntegrateCalled /\ NamedStepper =>
             last.done = GSIntegrate(n_steps, step_type, STEP_FUNCTIONS[step_type],
                                     last.force, last.initial_state, last.end_time))
    /\ [][Assigned /\ last'.done.outcome = "raise" =>
             step_type' = step_type /\ step_function' = step_function]_vars
    /\ [][Assigned /\ last'.done.outcome = "return" =>
             /\ last'.value \in StepNames \cup CustomSteps
             /\ step_type' = AcceptedStepper(last'.value).step_type
             /\ step_function' = AcceptedStepper(last'.value).step_function]_vars

\* C18 witness: an unregistered name was refused on an integrator that steps
\* with a caller's callable
C18_Witness ==
    /\ last.op = "step_type"
    /\ last.value \in BadNames
    /\ last.done.outcome = "raise"
    /\ step_type = None
    /\ step_function = "half_step"

\* the last step was an integrate call
IntegrateStep == last'.op = "integrate" /\ last' # last

\* the integrator calls the vector field during integrate: the adaptive one
\* always, the fixed-step one when it takes a step with a stepper that does
FieldIsCalled ==
    \/ kind = "scp"
    \/ kind = "gs" /\ n_steps >= 1 /\ step_function # "hold_step"

\* C19: an integrate call that raises leaves result_ exactly as it was
\* before the call, and an integrate call whose vector field raises when it
\* is called raises the field's exception.
C19_RaisingCallKeepsCache ==
    /\ [][IntegrateStep /\ last'.done.outcome = "raise" => result_' = result_]_vars
    /\ [][IntegrateStep /\ last'.force.kind = "raising" /\ FieldIsCalled =>
             /\ last'.done = Raised("FloatingPointError")
             /\ result_' = result_]_vars

\* C19 witness: the vector field raised in an integrate call on an integrator
\* that holds the Result of an earlier call
C19_Witness ==
    /\ save_result
    /\ result_ # NoResult
    /\ last.op = "integrate"
    /\ last.force.kind = "raising"
    /\ last.done = Raised("FloatingPointError")

====
